---- MODULE Spec2Model ----
(***************************************************************************)
(* ALP-Looping: the retry wrapper (src/src/alp/retry/strategy.py), the      *)
(* termination evaluator (src/src/alp/termination_conditions.py) and the   *)
(* iteration state with its store (src/src/iteration_state.py) as state    *)
(* machines.                                                               *)
(*                                                                         *)
(* Numbers: delays and performance values are Python floats in the source; *)
(* they are modelled by integers (a delay in whole units, a performance    *)
(* value in whole steps), on which *, max and >= agree with the floats.    *)
(* NaN is not modelled.                                                    *)
(***************************************************************************)
EXTENDS Integers, Sequences, FiniteSets, TLC

(***************************************************************************)
(* Bounds of the model                                                     *)
(***************************************************************************)
\* largest max_retries a handler is constructed with
MaxRetries == 3
\* largest initial_delay a handler that runs guarded calls is constructed with
MaxInitialDelay == 2
\* largest initial_delay and attempt number _calculate_delay is applied to
MaxDelayArg == 4
MaxAttemptArg == 10
\* largest max_iterations, performance value and number of evaluate calls
MaxIterations == 3
MaxPerformance == 2
MaxEvaluations == 5
\* the clock reading at which no further transition of an IterationState is
\* taken (each mark_* call reads the clock, which then moves on)
MaxClock == 4
\* the largest max_iterations given to a tracker
MaxTrackerLimit == 3
\* the most calls made on one tracker
MaxTrackerCalls == 5
\* the most log_iteration calls made on one log
MaxLogCalls == 3

VARIABLES
    \* ---- TransientErrorRetryHandler (strategy.py:24-43) and retry() arguments
    max_retries,        \* self.max_retries
    initial_delay,      \* self.initial_delay
    strategy,           \* self.strategy
    exceptions,         \* retry(exceptions=...): the exception kinds caught
    on_retry,           \* retry(on_retry=...): "None" or "callable"
    \* ---- one guarded call: wrapper (strategy.py:79-104)
    pc,                 \* position of the wrapper
    attempt,            \* the loop variable
    last_exception,     \* the local last_exception
    result,             \* what the wrapper returned or raised
    events,             \* what the wrapper did, in order: func calls,
                        \* on_retry calls, time.sleep calls
    previous_call,      \* the attempt and last_exception the call before
                        \* this one ended with
    \* ---- _calculate_delay applied on its own (strategy.py:45-61)
    delay_arg,          \* the attempt it was last applied to (0: not yet)
    delay_ret,          \* what it returned
    \* ---- TerminationConditions (termination_conditions.py:26-29)
    max_iterations,
    performance_threshold,
    current_iteration,
    best_performance,
    \* ---- the caller's view of the evaluator
    last_performance,   \* argument of the last evaluate_termination call
    last_status,        \* what it returned ("NONE": no call since construction)
    observed,           \* the performance values passed since the last reset
    evaluations,        \* the number of calls since the last reset
    total_evaluations,  \* the number of calls since construction
    \* ---- one IterationState (iteration_state.py:33-40)
    iteration_id,
    status,
    start_time,         \* Optional[datetime]: <<>> is None, <<t>> a datetime
    end_time,
    configuration,
    metrics,
    error_details,      \* Optional[str]: <<>> is None, <<m>> the string m
    context,
    \* ---- the caller's view of the IterationState
    now,                \* the clock datetime.now() reads
    last_call,          \* the last mark_* call: its name, argument, the fields
                        \* before it and what it raised
    start_assignments,  \* how many times start_time was assigned
    end_assignments,    \* how many times end_time was assigned
    roundtrip,          \* the last from_dict(to_dict(s)): s and the result
    \* ---- IterationStateManager (iteration_state.py:123-132)
    files,              \* state_dir: for each id, the file <id>.json
    \* ---- the caller's view of the manager
    saved,              \* for each id, the state given to the last save_state
                        \* call for it and whether that call returned
    store_call,         \* the last call: its name, id, the files before it and
                        \* what it returned or raised
    \* ---- IterationTracker (alp/iteration_tracker.py:19-31)
    _max_iterations,    \* None or the limit
    _current_iteration,
    _status,
    \* ---- the caller's view of the tracker
    tracker_call,       \* the last call: its name, the status and count before
                        \* it, what it returned or raised
    tracker_trace,      \* the calls that act on the tracker, with their outcomes
    \* ---- IterationLogger (iteration_logger.py:46-76)
    log_file,           \* the file at log_path
    \* ---- the caller's view of the logger
    logged,             \* the log_iteration calls: the entry and whether it was written
    log_call,           \* the last call: its name, the file before it, its outcome
    \* ---- ConfigurationManager (config/config_manager.py:25-34)
    config_file,        \* the file at _config_path
    environ,            \* os.environ: the ALP_<FIELD> variables
    _config,            \* the outcome of _load_configuration
    \* ---- two processes in save_state for one id (iteration_state.py:141-143)
    writer_state,       \* for each writer, the state it saves
    writer_pc,          \* where it is: before open, between open and the
                        \* write of its buffer, or after close
    writer_file,        \* the text of the one file both write
    writer_order,       \* the writers in the order their calls ended
    writer_load         \* what load_state gave after both ended

retry_vars == <<max_retries, initial_delay, strategy, exceptions, on_retry,
                pc, attempt, last_exception, result, events, previous_call>>
delay_vars == <<delay_arg, delay_ret>>
term_vars == <<max_iterations, performance_threshold, current_iteration,
               best_performance, last_performance, last_status, observed,
               evaluations, total_evaluations>>
state_vars == <<iteration_id, status, start_time, end_time, configuration, metrics,
                error_details, context, now, last_call, start_assignments,
                end_assignments, roundtrip>>
store_vars == <<files, saved, store_call>>
tracker_vars == <<_max_iterations, _current_iteration, _status, tracker_call, tracker_trace>>
logger_vars == <<log_file, logged, log_call>>
config_vars == <<config_file, environ, _config>>
writer_vars == <<writer_state, writer_pc, writer_file, writer_order, writer_load>>
vars == <<retry_vars, delay_vars, term_vars, state_vars, store_vars,
          tracker_vars, logger_vars, config_vars, writer_vars>>

(***************************************************************************)
(* Values                                                                  *)
(***************************************************************************)
\* class RetryStrategy
RetryStrategy == {"CONSTANT", "LINEAR", "EXPONENTIAL"}

\* Exceptions are values with a class and a message.  ValueError and TypeError
\* are the classes the wrapped function raises; RuntimeError is what a failing
\* on_retry callback raises.
Exc(kind, msg) == [kind |-> kind, msg |-> msg]
NoException == Exc("None", "")
FuncFailures == {Exc("ValueError", "a"), Exc("ValueError", "b"), Exc("TypeError", "a")}
CallbackFailure == Exc("RuntimeError", "callback")
\* `raise None` (last_exception never assigned) is a TypeError of the interpreter
RaiseNoneError == Exc("TypeError", "exceptions must derive from BaseException")
\* what one call of the wrapped function does: return its value, or raise
Returned(v) == [kind |-> "return", msg |-> v]
FuncOutcomes == {Returned("Success")} \cup FuncFailures
\* the tuples of exception classes retry() is given
ExceptionTuples == {{"ValueError"}, {"ValueError", "TypeError"}}

NoResult == [how |-> "none", val |-> NoException]

\* one entry of the record of what the wrapper did
Event(what, a, o, d, ok) == [ev |-> what, attempt |-> a, outcome |-> o, delay |-> d, ok |-> ok]

(***************************************************************************)
(* _calculate_delay (strategy.py:45-61)                                    *)
(***************************************************************************)
\* mutant: the exponent taken from the attempt, not from attempt - 1
_calculate_delay_ExponentOffByOne(a) ==
    IF strategy = "CONSTANT" THEN initial_delay
    ELSE IF strategy = "LINEAR" THEN initial_delay * a
    ELSE IF strategy = "EXPONENTIAL" THEN initial_delay * (2 ^ a)
    ELSE initial_delay

_calculate_delay(a) ==
    IF strategy = "CONSTANT" THEN initial_delay
    ELSE IF strategy = "LINEAR" THEN initial_delay * a
    ELSE IF strategy = "EXPONENTIAL" THEN initial_delay * (2 ^ (a - 1))
    ELSE initial_delay

(***************************************************************************)
(* wrapper (strategy.py:79-104)                                            *)
(***************************************************************************)
\* mutant: `except Exception`, whatever tuple was given
Catches_Everything(e) == TRUE

\* `except exceptions as e` (line 84): the classes the handler catches
Catches(e) == e.kind \in exceptions

\* mutant: the test of line 96 off by one
DelayBeforeNext_AlsoAfterLast(a) == a <= max_retries

\* `if attempt < self.max_retries` (line 96)
DelayBeforeNext(a) == a < max_retries

\* the value of `raise last_exception` (line 104)
RaiseLast == IF last_exception = NoException THEN RaiseNoneError ELSE last_exception

\* mutant: the loop body runs once before the range is looked at
CallWrapper_AtLeastOnce ==
    /\ pc \in {"idle", "returned", "raised"}
    /\ previous_call' = [attempt |-> attempt, last_exception |-> last_exception]
    /\ last_exception' = NoException
    /\ events' = <<>>
    /\ attempt' = 1
    /\ pc' = "try"
    /\ result' = NoResult
    /\ UNCHANGED <<max_retries, initial_delay, strategy, exceptions, on_retry>>
    /\ UNCHANGED <<delay_vars, term_vars, state_vars, store_vars, tracker_vars, logger_vars, config_vars, writer_vars>>

\* mutant: last_exception kept across calls (a variable of the decorator, not
\* of the wrapper)
CallWrapper_KeepsLast ==
    /\ pc \in {"idle", "returned", "raised"}
    /\ previous_call' = [attempt |-> attempt, last_exception |-> last_exception]
    /\ events' = <<>>
    /\ IF max_retries >= 1
         THEN /\ attempt' = 1
              /\ pc' = "try"
              /\ result' = NoResult
         ELSE /\ attempt' = 0
              /\ pc' = "raised"
              /\ result' = [how |-> "raise", val |-> RaiseLast]
    /\ UNCHANGED <<max_retries, initial_delay, strategy, exceptions, on_retry, last_exception>>
    /\ UNCHANGED <<delay_vars, term_vars, state_vars, store_vars, tracker_vars, logger_vars, config_vars, writer_vars>>

\* The caller calls the wrapped function: lines 80-81.  With an empty range
\* the loop body never runs and line 104 raises at once.
CallWrapper ==
    /\ pc \in {"idle", "returned", "raised"}
    /\ previous_call' = [attempt |-> attempt, last_exception |-> last_exception]
    /\ last_exception' = NoException
    /\ events' = <<>>
    /\ IF max_retries >= 1
         THEN /\ attempt' = 1
              /\ pc' = "try"
              /\ result' = NoResult
         ELSE /\ attempt' = 0
              /\ pc' = "raised"
              /\ result' = [how |-> "raise", val |-> RaiseNoneError]
    /\ UNCHANGED <<max_retries, initial_delay, strategy, exceptions, on_retry>>
    /\ UNCHANGED <<delay_vars, term_vars, state_vars, store_vars, tracker_vars, logger_vars, config_vars, writer_vars>>

\* mutant: the value of func is kept but the loop is not left (a `return` turned
\* into an assignment)
InvokeFunc_NoReturn ==
    /\ pc = "try"
    /\ \E o \in FuncOutcomes :
         /\ events' = Append(events, Event("invoke", attempt, o, 0, o.kind = "return"))
         /\ IF o.kind = "return"
              THEN /\ pc' = "delay"
                   /\ result' = [how |-> "return", val |-> o]
                   /\ UNCHANGED last_exception
              ELSE IF Catches(o)
                THEN /\ pc' = "except"
                     /\ last_exception' = o
                     /\ UNCHANGED result
                ELSE /\ pc' = "raised"
                     /\ result' = [how |-> "raise", val |-> o]
                     /\ UNCHANGED last_exception
    /\ UNCHANGED <<previous_call, max_retries, initial_delay, strategy, exceptions, on_retry, attempt>>
    /\ UNCHANGED <<delay_vars, term_vars, state_vars, store_vars, tracker_vars, logger_vars, config_vars, writer_vars>>

\* lines 82-85: func is called; it returns (and the wrapper returns its value),
\* or raises a caught exception (kept in last_exception), or raises another one
\* (which leaves the wrapper).
InvokeFunc ==
    /\ pc = "try"
    /\ \E o \in FuncOutcomes :
         /\ events' = Append(events, Event("invoke", attempt, o, 0, o.kind = "return"))
         /\ IF o.kind = "return"
              THEN /\ pc' = "returned"
                   /\ result' = [how |-> "return", val |-> o]
                   /\ UNCHANGED last_exception
              ELSE IF Catches(o)
                THEN /\ pc' = "except"
                     /\ last_exception' = o
                     /\ UNCHANGED result
                ELSE /\ pc' = "raised"
                     /\ result' = [how |-> "raise", val |-> o]
                     /\ UNCHANGED last_exception
    /\ UNCHANGED <<previous_call, max_retries, initial_delay, strategy, exceptions, on_retry, attempt>>
    /\ UNCHANGED <<delay_vars, term_vars, state_vars, store_vars, tracker_vars, logger_vars, config_vars, writer_vars>>

\* mutant: the callback moved under the test of line 96, so that the last
\* failed attempt is not reported
OnRetry_NotOnLastAttempt ==
    /\ pc = "except"
    /\ IF on_retry = "None" \/ ~(attempt < max_retries)
         THEN /\ pc' = "delay"
              /\ UNCHANGED <<events, result>>
         ELSE \E raises \in BOOLEAN :
                /\ events' = Append(events, Event("callback", attempt, last_exception, 0, ~raises))
                /\ IF raises
                     THEN /\ pc' = "raised"
                          /\ result' = [how |-> "raise", val |-> CallbackFailure]
                     ELSE /\ pc' = "delay"
                          /\ UNCHANGED result
    /\ UNCHANGED <<previous_call, max_retries, initial_delay, strategy, exceptions, on_retry,
                   attempt, last_exception>>
    /\ UNCHANGED <<delay_vars, term_vars, state_vars, store_vars, tracker_vars, logger_vars, config_vars, writer_vars>>

\* lines 92-93: the callback, when there is one, is called with the attempt and
\* the exception; an exception it raises is raised inside the except block,
\* which nothing catches, so it leaves the wrapper.
OnRetry ==
    /\ pc = "except"
    /\ IF on_retry = "None"
         THEN /\ pc' = "delay"
              /\ UNCHANGED <<events, result>>
         ELSE \E raises \in BOOLEAN :
                /\ events' = Append(events, Event("callback", attempt, last_exception, 0, ~raises))
                /\ IF raises
                     THEN /\ pc' = "raised"
                          /\ result' = [how |-> "raise", val |-> CallbackFailure]
                     ELSE /\ pc' = "delay"
                          /\ UNCHANGED result
    /\ UNCHANGED <<previous_call, max_retries, initial_delay, strategy, exceptions, on_retry,
                   attempt, last_exception>>
    /\ UNCHANGED <<delay_vars, term_vars, state_vars, store_vars, tracker_vars, logger_vars, config_vars, writer_vars>>

\* lines 96-98, then the next round of the loop (line 81)
SleepAndRetry ==
    /\ pc = "delay"
    /\ DelayBeforeNext(attempt)
    /\ events' = Append(events, Event("sleep", attempt, NoException, _calculate_delay(attempt), TRUE))
    /\ attempt' = attempt + 1
    /\ pc' = "try"
    /\ UNCHANGED <<previous_call, max_retries, initial_delay, strategy, exceptions, on_retry,
                   last_exception, result>>
    /\ UNCHANGED <<delay_vars, term_vars, state_vars, store_vars, tracker_vars, logger_vars, config_vars, writer_vars>>

\* line 96 false on the last round: the loop ends, lines 101-104
Exhausted ==
    /\ pc = "delay"
    /\ ~DelayBeforeNext(attempt)
    /\ pc' = "raised"
    /\ result' = [how |-> "raise", val |-> RaiseLast]
    /\ UNCHANGED <<previous_call, max_retries, initial_delay, strategy, exceptions, on_retry,
                   attempt, last_exception, events>>
    /\ UNCHANGED <<delay_vars, term_vars, state_vars, store_vars, tracker_vars, logger_vars, config_vars, writer_vars>>

(***************************************************************************)
(* _calculate_delay applied on its own                                     *)
(***************************************************************************)
CalculateDelay ==
    /\ \E a \in 1..MaxAttemptArg :
         /\ delay_arg' = a
         /\ delay_ret' = _calculate_delay(a)
    /\ UNCHANGED <<retry_vars, term_vars, state_vars, store_vars, tracker_vars, logger_vars, config_vars, writer_vars>>

(***************************************************************************)
(* TerminationConditions (termination_conditions.py)                       *)
(***************************************************************************)
PerformanceValues == (0 - 1) .. MaxPerformance

\* Python's max on two numbers
max(a, b) == IF b > a THEN b ELSE a

\* mutant: the counter stops at max_iterations
IncrementedIteration_Saturating ==
    IF current_iteration >= max_iterations THEN current_iteration ELSE current_iteration + 1

\* line 42: self.current_iteration += 1
IncrementedIteration == current_iteration + 1

\* mutant: the last value replaces the best one
UpdatedBest_Last(current_performance) == current_performance

\* line 45: max(self.best_performance, current_performance)
UpdatedBest(current_performance) == max(best_performance, current_performance)

\* mutant: the limit must be exceeded, not reached
TerminationStatusOf_StrictLimit(current_performance) ==
    IF IncrementedIteration > max_iterations THEN "TERMINATE"
    ELSE IF current_performance >= performance_threshold THEN "TERMINATE"
    ELSE "CONTINUE"

\* mutant: the threshold compared with the best value so far
TerminationStatusOf_BestThreshold(current_performance) ==
    IF IncrementedIteration >= max_iterations THEN "TERMINATE"
    ELSE IF UpdatedBest(current_performance) >= performance_threshold THEN "TERMINATE"
    ELSE "CONTINUE"

\* mutant: the threshold must be exceeded, not reached
TerminationStatusOf_StrictThreshold(current_performance) ==
    IF IncrementedIteration >= max_iterations THEN "TERMINATE"
    ELSE IF current_performance > performance_threshold THEN "TERMINATE"
    ELSE "CONTINUE"

\* lines 48-54: the status returned; line 48 reads the counter line 42 has
\* incremented
TerminationStatusOf(current_performance) ==
    IF IncrementedIteration >= max_iterations THEN "TERMINATE"
    ELSE IF current_performance >= performance_threshold THEN "TERMINATE"
    ELSE "CONTINUE"

\* evaluate_termination (lines 31-54)
evaluate_termination(current_performance) ==
    /\ total_evaluations < MaxEvaluations
    /\ current_iteration' = IncrementedIteration
    /\ best_performance' = UpdatedBest(current_performance)
    /\ last_status' = TerminationStatusOf(current_performance)
    /\ last_performance' = current_performance
    /\ observed' = observed \cup {current_performance}
    /\ evaluations' = evaluations + 1
    /\ total_evaluations' = total_evaluations + 1
    /\ UNCHANGED <<max_iterations, performance_threshold>>
    /\ UNCHANGED <<retry_vars, delay_vars, state_vars, store_vars, tracker_vars, logger_vars, config_vars, writer_vars>>

EvaluateTermination == \E p \in PerformanceValues : evaluate_termination(p)

\* mutant: best_performance is not put back
reset_KeepsBest ==
    /\ current_iteration' = 0
    /\ observed' = {}
    /\ evaluations' = 0
    /\ UNCHANGED <<max_iterations, performance_threshold, best_performance,
                   last_performance, last_status, total_evaluations>>
    /\ UNCHANGED <<retry_vars, delay_vars, state_vars, store_vars, tracker_vars, logger_vars, config_vars, writer_vars>>

\* reset (lines 56-61)
reset ==
    /\ current_iteration' = 0
    /\ best_performance' = 0
    /\ observed' = {}
    /\ evaluations' = 0
    /\ UNCHANGED <<max_iterations, performance_threshold, last_performance,
                   last_status, total_evaluations>>
    /\ UNCHANGED <<retry_vars, delay_vars, state_vars, store_vars, tracker_vars, logger_vars, config_vars, writer_vars>>

(***************************************************************************)
(* IterationState (iteration_state.py:10-116)                              *)
(***************************************************************************)
\* class IterationStatus: the members are their auto() values, in the order
\* of lines 15-23
INITIALIZED == 1
PENDING == 2
IN_PROGRESS == 3
RUNNING == 4
COMPLETED == 5
FAILED == 6
ERROR == 7
INTERRUPTED == 8
TERMINATED == 9
IterationStatus == INITIALIZED..TERMINATED
\* member.name
StatusName == <<"INITIALIZED", "PENDING", "IN_PROGRESS", "RUNNING", "COMPLETED",
                "FAILED", "ERROR", "INTERRUPTED", "TERMINATED">>
\* IterationStatus[name]; 0 stands for the KeyError of an unknown name
StatusByName(name) ==
    IF \E m \in IterationStatus : StatusName[m] = name
      THEN CHOOSE m \in IterationStatus : StatusName[m] = name
      ELSE 0

\* Optional values
None == <<>>
Some(x) == <<x>>

\* datetime.now() at clock reading t: seconds and microseconds
Datetime(t) == [sec |-> t \div 2, usec |-> t % 2]
\* datetime.isoformat(): the fraction is written only when it is not zero
isoformat(dt) == [date |-> dt.sec, frac |-> IF dt.usec = 0 THEN None ELSE Some(dt.usec)]
\* datetime.fromisoformat(): a missing fraction is zero microseconds
fromisoformat(iso) == [sec |-> iso.date, usec |-> IF iso.frac = None THEN 0 ELSE iso.frac[1]]

\* The values held by configuration, metrics and context (Dict[str, Any]):
\* a number, a tuple, a list and an object json cannot write.  A mapping is the
\* set of its (key, value) pairs.
Value(type, v) == [type |-> type, v |-> v]
Ids == {"it1", "it2"}
Messages == {"", "x", "y"}
StateMappings == {{}, {<<"k", Value("int", 1)>>}, {<<"k", Value("tuple", 1)>>}}

\* the fields of the object as one record
Self ==
    [iteration_id |-> iteration_id, status |-> status, start_time |-> start_time,
     end_time |-> end_time, configuration |-> configuration, metrics |-> metrics,
     error_details |-> error_details, context |-> context]

\* IterationState(iteration_id=id) (lines 33-40)
NewState(id) ==
    [iteration_id |-> id, status |-> PENDING, start_time |-> None, end_time |-> None,
     configuration |-> {}, metrics |-> {}, error_details |-> None, context |-> {}]

\* what a mark_* call is remembered by: the fields it may touch, before it
TransitionFields ==
    [status |-> status, start_time |-> start_time, end_time |-> end_time,
     error_details |-> error_details]
Call(op, arg) == [op |-> op, arg |-> arg, before |-> TransitionFields, raised |-> None]
NoCall == [op |-> "none", arg |-> None,
           before |-> [status |-> PENDING, start_time |-> None, end_time |-> None,
                       error_details |-> None],
           raised |-> None]

\* mutant: the start time is not recorded
mark_started_NoStartTime ==
    /\ now < MaxClock
    /\ status' = RUNNING
    /\ now' = now + 1
    /\ last_call' = Call("mark_started", None)
    /\ UNCHANGED <<iteration_id, start_time, end_time, configuration, metrics, error_details,
                   context, start_assignments, end_assignments, roundtrip>>
    /\ UNCHANGED <<retry_vars, delay_vars, term_vars, store_vars, tracker_vars, logger_vars, config_vars, writer_vars>>

\* mark_started (lines 43-49)
mark_started ==
    /\ now < MaxClock
    /\ status' = RUNNING
    /\ start_time' = Some(Datetime(now))
    /\ start_assignments' = start_assignments + 1
    /\ now' = now + 1
    /\ last_call' = Call("mark_started", None)
    /\ UNCHANGED <<iteration_id, end_time, configuration, metrics, error_details,
                   context, end_assignments, roundtrip>>
    /\ UNCHANGED <<retry_vars, delay_vars, term_vars, store_vars, tracker_vars, logger_vars, config_vars, writer_vars>>

\* mutant: a transition that checks the status it is called from and raises
mark_completed_Validated ==
    /\ now < MaxClock
    /\ IF status = RUNNING
         THEN /\ status' = COMPLETED
              /\ end_time' = Some(Datetime(now))
              /\ end_assignments' = end_assignments + 1
              /\ last_call' = Call("mark_completed", None)
         ELSE /\ UNCHANGED <<status, end_time, end_assignments>>
              /\ last_call' = [Call("mark_completed", None) EXCEPT !.raised = Some("InvalidTransition")]
    /\ now' = now + 1
    /\ UNCHANGED <<iteration_id, start_time, configuration, metrics, error_details,
                   context, start_assignments, roundtrip>>
    /\ UNCHANGED <<retry_vars, delay_vars, term_vars, store_vars, tracker_vars, logger_vars, config_vars, writer_vars>>

\* mark_completed (lines 51-57)
mark_completed ==
    /\ now < MaxClock
    /\ status' = COMPLETED
    /\ end_time' = Some(Datetime(now))
    /\ end_assignments' = end_assignments + 1
    /\ now' = now + 1
    /\ last_call' = Call("mark_completed", None)
    /\ UNCHANGED <<iteration_id, start_time, configuration, metrics, error_details,
                   context, start_assignments, roundtrip>>
    /\ UNCHANGED <<retry_vars, delay_vars, term_vars, store_vars, tracker_vars, logger_vars, config_vars, writer_vars>>

\* mutant: the end time is not recorded
mark_failed_NoEndTime(error_message) ==
    /\ now < MaxClock
    /\ status' = FAILED
    /\ error_details' = Some(error_message)
    /\ now' = now + 1
    /\ last_call' = Call("mark_failed", Some(error_message))
    /\ UNCHANGED <<iteration_id, start_time, end_time, configuration, metrics, context,
                   start_assignments, end_assignments, roundtrip>>
    /\ UNCHANGED <<retry_vars, delay_vars, term_vars, store_vars, tracker_vars, logger_vars, config_vars, writer_vars>>

\* mark_failed (lines 59-69)
mark_failed(error_message) ==
    /\ now < MaxClock
    /\ status' = FAILED
    /\ end_time' = Some(Datetime(now))
    /\ end_assignments' = end_assignments + 1
    /\ error_details' = Some(error_message)
    /\ now' = now + 1
    /\ last_call' = Call("mark_failed", Some(error_message))
    /\ UNCHANGED <<iteration_id, start_time, configuration, metrics, context,
                   start_assignments, roundtrip>>
    /\ UNCHANGED <<retry_vars, delay_vars, term_vars, store_vars, tracker_vars, logger_vars, config_vars, writer_vars>>

MarkFailed == \E m \in Messages : mark_failed(m)

\* mark_interrupted (lines 71-77)
mark_interrupted ==
    /\ now < MaxClock
    /\ status' = INTERRUPTED
    /\ end_time' = Some(Datetime(now))
    /\ end_assignments' = end_assignments + 1
    /\ now' = now + 1
    /\ last_call' = Call("mark_interrupted", None)
    /\ UNCHANGED <<iteration_id, start_time, configuration, metrics, error_details,
                   context, start_assignments, roundtrip>>
    /\ UNCHANGED <<retry_vars, delay_vars, term_vars, store_vars, tracker_vars, logger_vars, config_vars, writer_vars>>

\* to_dict (lines 79-95): s is the object's fields
to_dict(s) ==
    [iteration_id |-> s.iteration_id,
     status |-> StatusName[s.status],
     start_time |-> IF s.start_time /= None THEN Some(isoformat(s.start_time[1])) ELSE None,
     end_time |-> IF s.end_time /= None THEN Some(isoformat(s.end_time[1])) ELSE None,
     configuration |-> s.configuration,
     metrics |-> s.metrics,
     error_details |-> s.error_details,
     context |-> s.context]

\* mutant: end_time read back from the start_time entry
from_dict_EndFromStart(data) ==
    [iteration_id |-> data.iteration_id,
     status |-> StatusByName(data.status),
     start_time |-> IF data.start_time /= None THEN Some(fromisoformat(data.start_time[1])) ELSE None,
     end_time |-> IF data.start_time /= None THEN Some(fromisoformat(data.start_time[1])) ELSE None,
     configuration |-> data.configuration,
     metrics |-> data.metrics,
     error_details |-> data.error_details,
     context |-> data.context]

\* from_dict (lines 97-116)
from_dict(data) ==
    [iteration_id |-> data.iteration_id,
     status |-> StatusByName(data.status),
     start_time |-> IF data.start_time /= None THEN Some(fromisoformat(data.start_time[1])) ELSE None,
     end_time |-> IF data.end_time /= None THEN Some(fromisoformat(data.end_time[1])) ELSE None,
     configuration |-> data.configuration,
     metrics |-> data.metrics,
     error_details |-> data.error_details,
     context |-> data.context]

NoRoundTrip == [done |-> FALSE, of |-> NewState("it1"), got |-> NewState("it1")]

\* IterationState.from_dict(s.to_dict()) on the object as it is
RoundTrip ==
    /\ roundtrip' = [done |-> TRUE, of |-> Self, got |-> from_dict(to_dict(Self))]
    /\ UNCHANGED <<iteration_id, status, start_time, end_time, configuration, metrics,
                   error_details, context, now, last_call, start_assignments,
                   end_assignments>>
    /\ UNCHANGED <<retry_vars, delay_vars, term_vars, store_vars, tracker_vars, logger_vars, config_vars, writer_vars>>

(***************************************************************************)
(* IterationStateManager (iteration_state.py:119-183)                      *)
(***************************************************************************)
\* the values the mappings of a saved state hold: a number, a list, a tuple
\* and an object the json module cannot write
StoreValues == {Value("int", 1), Value("list", 1), Value("tuple", 1), Value("object", 1)}

\* The states given to save_state, for one id: a fresh one, one of each shape
\* the transitions leave, and one for each kind of value in a mapping.
StatesOf(id) ==
    LET fresh == NewState(id)
        running == [fresh EXCEPT !.status = RUNNING, !.start_time = Some(Datetime(1))]
        failed == [running EXCEPT !.status = FAILED, !.end_time = Some(Datetime(2)),
                                  !.error_details = Some("x")]
    IN {fresh, running, failed}
       \cup {[running EXCEPT !.metrics = {<<"k", v>>}] : v \in StoreValues}
       \cup {[fresh EXCEPT !.configuration = {<<"k", Value("int", 1)>>},
                           !.context = {<<"k", Value("list", 1)>>}]}
StoreStates == UNION {StatesOf(id) : id \in Ids}

\* json.dump / json.load on one value: a tuple is written as an array, which
\* is read back as a list
JsonValue(v) == IF v.type = "tuple" THEN Value("list", v.v) ELSE v
JsonMapping(m) == {<<kv[1], JsonValue(kv[2])>> : kv \in m}
\* the values json.dump raises TypeError on
Serializable(m) == \A kv \in m : kv[2].type /= "object"

\* A file: absent, a JSON document (held as what json.load returns for it),
\* or the beginning of one, left by a json.dump that raised
NoDocument == to_dict(NewState("it1"))
Absent == [kind |-> "absent", doc |-> NoDocument]
Truncated == [kind |-> "truncated", doc |-> NoDocument]
JsonFile(d) == [kind |-> "json", doc |-> d]

\* open(state_file, 'w') and json.dump(d, f, indent=2) (lines 142-143): the
\* file is emptied, then written piece by piece until a value cannot be written
json_dump(d) ==
    IF Serializable(d.configuration) /\ Serializable(d.metrics) /\ Serializable(d.context)
      THEN JsonFile([d EXCEPT !.configuration = JsonMapping(d.configuration),
                              !.metrics = JsonMapping(d.metrics),
                              !.context = JsonMapping(d.context)])
      ELSE Truncated

\* mutant: one file for all ids
StateFile_Shared(id) == "it1"

\* os.path.join(self.state_dir, f'{iteration_id}.json') (lines 141, 156)
StateFile(id) == id

Return(v) == [how |-> "return", exc |-> "", value |-> v]
Raise(e) == [how |-> "raise", exc |-> e, value |-> None]
\* id holds the call's argument: an iteration id, or the status asked for
StoreCall(op, id, r) == [op |-> op, id |-> id, before |-> files, result |-> r]
NoStoreCall == [op |-> "none", id |-> "it1", before |-> [i \in Ids |-> Absent], result |-> Return(None)]
NotSaved == [called |-> FALSE, returned |-> FALSE, again |-> FALSE, state |-> NewState("it1")]

\* The files a directory may hold when the manager is made on it
\* (os.makedirs(state_dir, exist_ok=True)): none for an id, or one that is not
\* a record: unparsable, with a status name the enum lacks, or lacking a field
Fields == {"iteration_id", "status", "start_time", "end_time", "configuration",
           "metrics", "error_details", "context"}
UnknownStatusDoc == [to_dict(NewState("it1")) EXCEPT !.status = "BOGUS"]
MissingFieldDoc ==
    [k \in Fields \ {"metrics"} |-> to_dict([NewState("it2") EXCEPT !.status = FAILED])[k]]
PreexistingFiles == {Absent, Truncated, JsonFile(UnknownStatusDoc), JsonFile(MissingFieldDoc)}

\* mutant: the new mappings are merged into those of the file
save_state_Merges(iteration_state) ==
    LET written == json_dump(to_dict(iteration_state))
        id == iteration_state.iteration_id
        old == files[StateFile(id)]
        merged == IF written.kind = "json" /\ old.kind = "json" /\ Fields \subseteq DOMAIN old.doc
                    THEN JsonFile([written.doc EXCEPT
                             !.metrics = @ \cup {kv \in old.doc.metrics :
                                                   \A n \in written.doc.metrics : n[1] /= kv[1]}])
                    ELSE written
    IN /\ files' = [files EXCEPT ![StateFile(id)] = merged]
       /\ saved' = [saved EXCEPT ![id] = [called |-> TRUE,
                                          returned |-> written.kind = "json",
                                          again |-> saved[id].called,
                                          state |-> iteration_state]]
       /\ store_call' = StoreCall("save_state", id,
                                  IF written.kind = "json" THEN Return(None)
                                  ELSE Raise("TypeError"))
       /\ UNCHANGED <<retry_vars, delay_vars, term_vars, state_vars, tracker_vars, logger_vars, config_vars, writer_vars>>

\* mutant: a file that could not be written is removed
save_state_RemovesOnError(iteration_state) ==
    LET written == json_dump(to_dict(iteration_state))
        id == iteration_state.iteration_id
    IN /\ files' = [files EXCEPT ![StateFile(id)] =
                        IF written.kind = "json" THEN written ELSE Absent]
       /\ saved' = [saved EXCEPT ![id] = [called |-> TRUE,
                                          returned |-> written.kind = "json",
                                          again |-> saved[id].called,
                                          state |-> iteration_state]]
       /\ store_call' = StoreCall("save_state", id,
                                  IF written.kind = "json" THEN Return(None)
                                  ELSE Raise("TypeError"))
       /\ UNCHANGED <<retry_vars, delay_vars, term_vars, state_vars, tracker_vars, logger_vars, config_vars, writer_vars>>

\* save_state (lines 134-144)
save_state(iteration_state) ==
    LET written == json_dump(to_dict(iteration_state))
        id == iteration_state.iteration_id
    IN /\ files' = [files EXCEPT ![StateFile(id)] = written]
       /\ saved' = [saved EXCEPT ![id] = [called |-> TRUE,
                                          returned |-> written.kind = "json",
                                          again |-> saved[id].called,
                                          state |-> iteration_state]]
       /\ store_call' = StoreCall("save_state", id,
                                  IF written.kind = "json" THEN Return(None)
                                  ELSE Raise("TypeError"))
       /\ UNCHANGED <<retry_vars, delay_vars, term_vars, state_vars, tracker_vars, logger_vars, config_vars, writer_vars>>

SaveState == \E st \in StoreStates : save_state(st)

\* what load_state gives for a file: lines 157-163
LoadResult(file) ==
    IF file.kind = "absent" THEN Return(None)
    ELSE IF file.kind = "truncated" THEN Raise("JSONDecodeError")
    ELSE IF ~(Fields \subseteq DOMAIN file.doc) THEN Raise("KeyError")
    ELSE IF StatusByName(file.doc.status) = 0 THEN Raise("KeyError")
    ELSE Return(Some(from_dict(file.doc)))

\* mutant: the missing file is not caught
load_state_Raises(id) ==
    /\ store_call' = StoreCall("load_state", id,
                               IF files[StateFile(id)].kind = "absent"
                                 THEN Raise("FileNotFoundError")
                                 ELSE LoadResult(files[StateFile(id)]))
    /\ UNCHANGED <<files, saved>>
    /\ UNCHANGED <<retry_vars, delay_vars, term_vars, state_vars, tracker_vars, logger_vars, config_vars, writer_vars>>

\* load_state (lines 146-163)
load_state(id) ==
    /\ store_call' = StoreCall("load_state", id, LoadResult(files[StateFile(id)]))
    /\ UNCHANGED <<files, saved>>
    /\ UNCHANGED <<retry_vars, delay_vars, term_vars, state_vars, tracker_vars, logger_vars, config_vars, writer_vars>>

LoadState == \E id \in Ids : load_state(id)

\* os.listdir(self.state_dir) (line 176): the names of the files that exist, in
\* an order the file system chooses
Listings ==
    LET present == {id \in Ids : files[id].kind /= "absent"}
    IN {order \in UNION {[1..n -> present] : n \in 0..Cardinality(Ids)} :
           /\ Len(order) = Cardinality(present)
           /\ \A i, j \in 1..Len(order) : i /= j => order[i] /= order[j]}

\* mutant: the status of a file is not compared with the one asked for
ScanFile_Unfiltered(file, wanted) ==
    IF file.kind = "truncated" THEN [exc |-> "JSONDecodeError", append |-> FALSE]
    ELSE IF "status" \notin DOMAIN file.doc THEN [exc |-> "KeyError", append |-> FALSE]
    ELSE IF StatusByName(file.doc.status) = 0 THEN [exc |-> "KeyError", append |-> FALSE]
    ELSE IF ~(Fields \subseteq DOMAIN file.doc) THEN [exc |-> "KeyError", append |-> FALSE]
    ELSE [exc |-> "", append |-> TRUE]

\* the loop body of get_states_by_status (lines 177-182) on one file: the
\* exception it raises ("" for none) and whether it appends the state
ScanFile(file, wanted) ==
    IF file.kind = "truncated" THEN [exc |-> "JSONDecodeError", append |-> FALSE]
    ELSE IF "status" \notin DOMAIN file.doc THEN [exc |-> "KeyError", append |-> FALSE]
    ELSE IF StatusByName(file.doc.status) = 0 THEN [exc |-> "KeyError", append |-> FALSE]
    ELSE IF StatusByName(file.doc.status) /= wanted THEN [exc |-> "", append |-> FALSE]
    ELSE IF ~(Fields \subseteq DOMAIN file.doc) THEN [exc |-> "KeyError", append |-> FALSE]
    ELSE [exc |-> "", append |-> TRUE]

\* the loop of get_states_by_status from the files named in order, with the
\* states appended so far (lines 175-183)
RECURSIVE ScanResult(_, _, _)
ScanResult(order, wanted, states) ==
    IF order = <<>> THEN Return(states)
    ELSE LET step == ScanFile(files[Head(order)], wanted)
         IN IF step.exc /= "" THEN Raise(step.exc)
            ELSE ScanResult(Tail(order), wanted,
                            IF step.append
                              THEN Append(states, from_dict(files[Head(order)].doc))
                              ELSE states)

\* get_states_by_status (lines 165-183)
get_states_by_status(wanted) ==
    /\ \E order \in Listings :
           store_call' = StoreCall("get_states_by_status", wanted,
                                   ScanResult(order, wanted, <<>>))
    /\ UNCHANGED <<files, saved>>
    /\ UNCHANGED <<retry_vars, delay_vars, term_vars, state_vars, tracker_vars, logger_vars, config_vars, writer_vars>>

GetStatesByStatus == \E st \in IterationStatus : get_states_by_status(st)

(***************************************************************************)
(* IterationTracker (alp/iteration_tracker.py:6-147)                       *)
(***************************************************************************)
\* the limits given to IterationTracker(max_iterations): None, or an int that
\* nothing validates
TrackerLimits == {None} \cup {Some(n) : n \in 0..MaxTrackerLimit}

\* the values True and False where a call may also give None
True == Some(TRUE)
False == Some(FALSE)

TrackerCall(op, r) ==
    [op |-> op,
     before |-> [status |-> _status, current_iteration |-> _current_iteration],
     result |-> r]
NoTrackerCall ==
    [op |-> "none",
     before |-> [status |-> INITIALIZED, current_iteration |-> 0],
     result |-> Return(None)]
TrackerEvent(op, r) == [op |-> op, result |-> r]

\* mutant: start() from any status
start_Unchecked ==
    /\ Len(tracker_trace) < MaxTrackerCalls
    /\ _status' = IN_PROGRESS
    /\ tracker_call' = TrackerCall("start", Return(None))
    /\ tracker_trace' = Append(tracker_trace, TrackerEvent("start", Return(None)))
    /\ UNCHANGED <<_max_iterations, _current_iteration>>
    /\ UNCHANGED <<retry_vars, delay_vars, term_vars, state_vars, store_vars, logger_vars, config_vars, writer_vars>>

\* start (lines 33-44)
start ==
    /\ Len(tracker_trace) < MaxTrackerCalls
    /\ LET r == IF _status /= INITIALIZED THEN Raise("RuntimeError") ELSE Return(None)
       IN /\ _status' = IF _status /= INITIALIZED THEN _status ELSE IN_PROGRESS
          /\ tracker_call' = TrackerCall("start", r)
          /\ tracker_trace' = Append(tracker_trace, TrackerEvent("start", r))
    /\ UNCHANGED <<_max_iterations, _current_iteration>>
    /\ UNCHANGED <<retry_vars, delay_vars, term_vars, state_vars, store_vars, logger_vars, config_vars, writer_vars>>

\* the limit check of next_iteration on the incremented count (lines 61-62)
\* mutant: the limit is reached only once the count is above it
LimitReached_Strict(count) == _max_iterations /= None /\ count > _max_iterations[1]

LimitReached(count) == _max_iterations /= None /\ count >= _max_iterations[1]

\* mutant: the status is not checked
next_iteration_Unchecked ==
    /\ Len(tracker_trace) < MaxTrackerCalls
    /\ LET count == _current_iteration + 1
           r == IF LimitReached(count) THEN Return(False) ELSE Return(True)
       IN /\ _current_iteration' = count
          /\ _status' = IF LimitReached(count) THEN COMPLETED ELSE _status
          /\ tracker_call' = TrackerCall("next_iteration", r)
          /\ tracker_trace' = Append(tracker_trace, TrackerEvent("next_iteration", r))
    /\ UNCHANGED _max_iterations
    /\ UNCHANGED <<retry_vars, delay_vars, term_vars, state_vars, store_vars, logger_vars, config_vars, writer_vars>>

\* mutant: complete() is not called at the limit
next_iteration_NoComplete ==
    /\ Len(tracker_trace) < MaxTrackerCalls
    /\ LET count == _current_iteration + 1
           r == IF _status /= IN_PROGRESS THEN Raise("RuntimeError")
                ELSE IF LimitReached(count) THEN Return(False)
                ELSE Return(True)
       IN /\ _current_iteration' = IF _status /= IN_PROGRESS THEN _current_iteration ELSE count
          /\ _status' = _status
          /\ tracker_call' = TrackerCall("next_iteration", r)
          /\ tracker_trace' = Append(tracker_trace, TrackerEvent("next_iteration", r))
    /\ UNCHANGED _max_iterations
    /\ UNCHANGED <<retry_vars, delay_vars, term_vars, state_vars, store_vars, logger_vars, config_vars, writer_vars>>

\* mutant: the count is incremented before the status is checked
next_iteration_CountsFirst ==
    /\ Len(tracker_trace) < MaxTrackerCalls
    /\ LET count == _current_iteration + 1
           r == IF _status /= IN_PROGRESS THEN Raise("RuntimeError")
                ELSE IF LimitReached(count) THEN Return(False)
                ELSE Return(True)
       IN /\ _current_iteration' = count
          /\ _status' = IF _status = IN_PROGRESS /\ LimitReached(count) THEN COMPLETED ELSE _status
          /\ tracker_call' = TrackerCall("next_iteration", r)
          /\ tracker_trace' = Append(tracker_trace, TrackerEvent("next_iteration", r))
    /\ UNCHANGED _max_iterations
    /\ UNCHANGED <<retry_vars, delay_vars, term_vars, state_vars, store_vars, logger_vars, config_vars, writer_vars>>

\* next_iteration (lines 46-68), with the complete() it calls
next_iteration ==
    /\ Len(tracker_trace) < MaxTrackerCalls
    /\ LET count == _current_iteration + 1
           r == IF _status /= IN_PROGRESS THEN Raise("RuntimeError")
                ELSE IF LimitReached(count) THEN Return(False)
                ELSE Return(True)
       IN /\ _current_iteration' = IF _status /= IN_PROGRESS THEN _current_iteration ELSE count
          /\ _status' = IF _status = IN_PROGRESS /\ LimitReached(count) THEN COMPLETED ELSE _status
          /\ tracker_call' = TrackerCall("next_iteration", r)
          /\ tracker_trace' = Append(tracker_trace, TrackerEvent("next_iteration", r))
    /\ UNCHANGED _max_iterations
    /\ UNCHANGED <<retry_vars, delay_vars, term_vars, state_vars, store_vars, logger_vars, config_vars, writer_vars>>

\* complete, terminate and error assign the status and log (lines 70-94)
SetStatus(op, to) ==
    /\ Len(tracker_trace) < MaxTrackerCalls
    /\ _status' = to
    /\ tracker_call' = TrackerCall(op, Return(None))
    /\ tracker_trace' = Append(tracker_trace, TrackerEvent(op, Return(None)))
    /\ UNCHANGED <<_max_iterations, _current_iteration>>
    /\ UNCHANGED <<retry_vars, delay_vars, term_vars, state_vars, store_vars, logger_vars, config_vars, writer_vars>>

\* complete (lines 70-73)
complete == SetStatus("complete", COMPLETED)
\* terminate (lines 75-83)
terminate == SetStatus("terminate", TERMINATED)
\* error (lines 85-93)
error == SetStatus("error", ERROR)

\* mutant: the limit is not looked at
IsIterationAllowed_NoLimit == _status = IN_PROGRESS

\* the value of is_iteration_allowed() (lines 145-147)
IsIterationAllowed ==
    /\ _status = IN_PROGRESS
    /\ (_max_iterations = None \/ _current_iteration < _max_iterations[1])

\* is_iteration_allowed (lines 138-147)
is_iteration_allowed ==
    /\ tracker_call' = TrackerCall("is_iteration_allowed",
                                 Return(IF IsIterationAllowed THEN True ELSE False))
    /\ UNCHANGED <<_max_iterations, _current_iteration, _status, tracker_trace>>
    /\ UNCHANGED <<retry_vars, delay_vars, term_vars, state_vars, store_vars, logger_vars, config_vars, writer_vars>>

(***************************************************************************)
(* IterationLogger (iteration_logger.py:9-150)                             *)
(***************************************************************************)
\* IterationLogEntry (lines 9-27)
IterationLogEntry(n, ts, md, pm, err, st) ==
    [iteration_number |-> n, timestamp |-> ts, metadata |-> md,
     performance_metrics |-> pm, error_info |-> err, status |-> st]

\* The entries given to log_iteration: successes with each kind of metadata
\* value, and a failure with its error_info
LogEntries ==
    {IterationLogEntry(n, Datetime(n + 1), md, {<<"accuracy", Value("int", 1)>>}, None, "success") :
        n \in 0..1,
        md \in {{}, {<<"k", Value("tuple", 1)>>}, {<<"k", Value("object", 1)>>}}}
    \cup {IterationLogEntry(2, Datetime(2), {}, {},
                            Some({<<"type", Value("str", 1)>>}), "failure")}

\* IterationLogEntry.to_dict (lines 29-38)
entry_to_dict(e) == [e EXCEPT !.timestamp = isoformat(e.timestamp)]

\* what json.dump writes for an entry's dictionary and json.load reads back
JsonEntry(d) ==
    [d EXCEPT !.metadata = JsonMapping(d.metadata),
              !.performance_metrics = JsonMapping(d.performance_metrics),
              !.error_info = IF d.error_info = None THEN None
                             ELSE Some(JsonMapping(d.error_info[1]))]
SerializableEntry(d) ==
    /\ Serializable(d.metadata)
    /\ Serializable(d.performance_metrics)
    /\ d.error_info /= None => Serializable(d.error_info[1])

\* The log file: absent, a JSON list of entries, or the beginning of one left
\* by a json.dump that raised
LogAbsent == [kind |-> "absent", entries |-> <<>>]
LogTruncated == [kind |-> "truncated", entries |-> <<>>]
LogJson(entries) == [kind |-> "json", entries |-> entries]

\* mutant: the new entry is put before the existing ones
_append_to_log_file_Prepends(entry) ==
    IF log_file.kind = "truncated" THEN log_file
    ELSE IF ~SerializableEntry(entry_to_dict(entry)) THEN LogTruncated
    ELSE LogJson(<<JsonEntry(entry_to_dict(entry))>> \o log_file.entries)

\* _append_to_log_file (lines 113-134): the file it leaves.  An unreadable
\* file makes json.load raise before anything is written; an entry json.dump
\* cannot write makes it raise after open(..., 'w') has emptied the file
_append_to_log_file(entry) ==
    IF log_file.kind = "truncated" THEN log_file
    ELSE IF ~SerializableEntry(entry_to_dict(entry)) THEN LogTruncated
    ELSE LogJson(Append(log_file.entries, JsonEntry(entry_to_dict(entry))))

LogCall(op, r) == [op |-> op, before |-> log_file, result |-> r]
NoLogCall == [op |-> "none", before |-> LogAbsent, result |-> Return(None)]

\* log_iteration (lines 78-93): both exceptions handlers swallow the failure
log_iteration(entry) ==
    /\ Len(logged) < MaxLogCalls
    /\ log_file' = _append_to_log_file(entry)
    /\ logged' = Append(logged, [entry |-> entry,
                                 written |-> _append_to_log_file(entry).kind = "json"])
    /\ log_call' = LogCall("log_iteration", Return(None))
    /\ UNCHANGED <<retry_vars, delay_vars, term_vars, state_vars, store_vars, tracker_vars, config_vars, writer_vars>>

LogIteration == \E entry \in LogEntries : log_iteration(entry)

\* get_log_entries (lines 136-150)
get_log_entries ==
    /\ log_call' = LogCall("get_log_entries",
                           Return(IF log_file.kind = "json" THEN log_file.entries ELSE <<>>))
    /\ UNCHANGED <<log_file, logged>>
    /\ UNCHANGED <<retry_vars, delay_vars, term_vars, state_vars, store_vars, tracker_vars, config_vars, writer_vars>>

(***************************************************************************)
(* ConfigurationManager (config/config_manager.py:11-157)                  *)
(***************************************************************************)
\* The fields of AdaptiveLearningProcessConfig looked at here, their values
\* and their defaults
ConfigFields == {"learning_algorithm", "logging_level"}
ConfigValues ==
    [learning_algorithm |-> {"adam", "stochastic_gradient_descent", "gradient_descent"},
     logging_level |-> {"INFO", "DEBUG", "WARNING"}]
DefaultConfig == [learning_algorithm |-> "adam", logging_level |-> "INFO"]
\* validate_alp_config on a dictionary of valid values
validate_alp_config(config_dict) == config_dict

\* a mapping as a set of (key, value) pairs: membership and lookup
HasKey(m, k) == \E kv \in m : kv[1] = k
Lookup(m, k) == (CHOOSE kv \in m : kv[1] = k)[2]
Mappings(keys, values) ==
    {m \in SUBSET UNION {{<<k, v>> : v \in values[k]} : k \in keys} :
        \A a, b \in m : a[1] = b[1] => a = b}

\* The configuration file: absent, not JSON, or an object giving some fields a
\* value or null
FileValues ==
    [field \in ConfigFields |->
        {None, Some("stochastic_gradient_descent"), Some("DEBUG")}
            \cap ({None} \cup {Some(v) : v \in ConfigValues[field]})]
ConfigFiles ==
    {[kind |-> "absent", doc |-> {}], [kind |-> "invalid", doc |-> {}]}
    \cup {[kind |-> "json", doc |-> m] : m \in Mappings(ConfigFields, FileValues)}
\* The ALP_<FIELD> variables, named by their field: unset, a value of the
\* field, or a string that is none
EnvValues ==
    [field \in ConfigFields |->
        {"gradient_descent", "WARNING", "bogus"} \cap (ConfigValues[field] \cup {"bogus"})]
Environments == Mappings(ConfigFields, EnvValues)

\* _parse_env_value (lines 36-71) for the enum fields: LearningAlgorithm(value)
\* and LoggingLevel(value) raise ValueError for a string that is no member
\* ("" stands for the ConfigurationError)
_parse_env_value(field_name, value) ==
    IF value \in ConfigValues[field_name] THEN value ELSE ""

\* the dictionary after the file is applied (lines 86-97)
WithFile(config_dict, file_config) ==
    [f \in ConfigFields |->
        IF HasKey(file_config, f) /\ Lookup(file_config, f) /= None
          THEN Lookup(file_config, f)[1]
          ELSE config_dict[f]]
\* the dictionary after the environment is applied (lines 101-110)
WithEnvironment(config_dict) ==
    [f \in ConfigFields |->
        IF HasKey(environ, f) THEN _parse_env_value(f, Lookup(environ, f))
        ELSE config_dict[f]]

NotLoaded == [how |-> "none", exc |-> "", value |-> None]

\* ConfigurationManager(config_path): _load_configuration (lines 73-112)
_load_configuration ==
    /\ _config' =
          IF config_file.kind = "invalid" THEN Raise("ConfigurationError")
          ELSE LET from_file == IF config_file.kind = "json"
                                  THEN WithFile(DefaultConfig, config_file.doc)
                                  ELSE DefaultConfig
                   merged == WithEnvironment(from_file)
               IN IF \E f \in ConfigFields : merged[f] = ""
                    THEN Raise("ConfigurationError")
                    ELSE Return(Some(validate_alp_config(merged)))
    /\ UNCHANGED <<config_file, environ>>
    /\ UNCHANGED <<retry_vars, delay_vars, term_vars, state_vars, store_vars, tracker_vars, logger_vars, writer_vars>>

(***************************************************************************)
(* Two processes running save_state for the same id                        *)
(* (iteration_state.py:141-143)                                            *)
(***************************************************************************)
Writers == {"A", "B"}

\* the states the writers save under the id: those json.dump writes in full
\* and json.load reads back as they are
WriterStates ==
    {s \in StatesOf("it1") :
        \A kv \in s.configuration \cup s.metrics \cup s.context :
            kv[2].type \in {"int", "list"}}

\* json.dump(d, f, indent=2): the number of lines of the text.  An empty
\* mapping takes the line of its key; one with items a line for each item and
\* one for the closing brace besides
TextLines(d) ==
    LET MappingLines(m) == IF m = {} THEN 0 ELSE Cardinality(m) + 1
    IN 2 + Cardinality(Fields) + MappingLines(d.configuration)
         + MappingLines(d.metrics) + MappingLines(d.context)
\* the text of a document, line by line
Text(d) == [i \in 1..TextLines(d) |-> [doc |-> d, line |-> i]]

\* open(state_file, 'w') (line 142): the file is emptied; the writer's
\* position in it is 0
WriterOpen(w) ==
    /\ writer_pc[w] = "idle"
    /\ writer_pc' = [writer_pc EXCEPT ![w] = "opened"]
    /\ writer_file' = <<>>
    /\ UNCHANGED <<writer_state, writer_order, writer_load>>
    /\ UNCHANGED <<retry_vars, delay_vars, term_vars, state_vars, store_vars, tracker_vars, logger_vars, config_vars>>

\* json.dump and the end of the with block (lines 142-143): the text, held in
\* the file object's buffer, is written at the writer's position, 0, when the
\* file is closed: it replaces as many lines as it has, and the lines of the
\* file beyond its length stay
WriterClose(w) ==
    /\ writer_pc[w] = "opened"
    /\ writer_pc' = [writer_pc EXCEPT ![w] = "closed"]
    /\ LET text == Text(to_dict(writer_state[w]))
       IN writer_file' = text \o SubSeq(writer_file, Len(text) + 1, Len(writer_file))
    /\ writer_order' = Append(writer_order, w)
    /\ UNCHANGED <<writer_state, writer_load>>
    /\ UNCHANGED <<retry_vars, delay_vars, term_vars, state_vars, store_vars, tracker_vars, logger_vars, config_vars>>

\* load_state (lines 157-160) once both save_state calls have ended: json.load
\* accepts the text of one document and nothing else
WriterLoad ==
    /\ \A w \in Writers : writer_pc[w] = "closed"
    /\ writer_load' =
          IF \E s \in WriterStates : writer_file = Text(to_dict(s))
            THEN Return(Some(from_dict(to_dict(
                   CHOOSE s \in WriterStates : writer_file = Text(to_dict(s))))))
            ELSE Raise("JSONDecodeError")
    /\ UNCHANGED <<writer_state, writer_pc, writer_file, writer_order>>
    /\ UNCHANGED <<retry_vars, delay_vars, term_vars, state_vars, store_vars, tracker_vars, logger_vars, config_vars>>

(***************************************************************************)
(* Initial states and specifications                                       *)
(***************************************************************************)
\* a handler constructed with the defaults and not yet used
RetryIdle ==
    /\ pc = "idle"
    /\ attempt = 0
    /\ last_exception = NoException
    /\ result = NoResult
    /\ events = <<>>
    /\ previous_call = [attempt |-> 0, last_exception |-> NoException]

RetryDefault ==
    /\ max_retries = 3
    /\ initial_delay = 1
    /\ strategy = "EXPONENTIAL"
    /\ exceptions = {"ValueError", "TypeError"}
    /\ on_retry = "None"
    /\ RetryIdle

DelayUnused ==
    /\ delay_arg = 0
    /\ delay_ret = 0

\* TerminationConditions() and a caller that has not called it
TermFresh ==
    /\ current_iteration = 0
    /\ best_performance = 0
    /\ last_performance = 0
    /\ last_status = "NONE"
    /\ observed = {}
    /\ evaluations = 0
    /\ total_evaluations = 0

TermDefault ==
    /\ max_iterations = MaxIterations
    /\ performance_threshold = MaxPerformance
    /\ TermFresh

\* IterationState(iteration_id='it1') that no caller has touched
StateUntouched ==
    /\ now = 1
    /\ last_call = NoCall
    /\ start_assignments = 0
    /\ end_assignments = 0
    /\ roundtrip = NoRoundTrip

StateDefault ==
    /\ iteration_id = "it1"
    /\ status = PENDING
    /\ start_time = None
    /\ end_time = None
    /\ configuration = {}
    /\ metrics = {}
    /\ error_details = None
    /\ context = {}
    /\ StateUntouched

\* IterationStateManager(state_dir) on a directory that holds no state file
StoreEmpty ==
    /\ files = [id \in Ids |-> Absent]
    /\ saved = [id \in Ids |-> NotSaved]
    /\ store_call = NoStoreCall

\* IterationLogger(log_dir) on a directory without a log file (lines 46-76)
LoggerDefault ==
    /\ log_file = LogAbsent
    /\ logged = <<>>
    /\ log_call = NoLogCall

\* no configuration file, no ALP_ variable, no manager made
ConfigDefault ==
    /\ config_file = [kind |-> "absent", doc |-> {}]
    /\ environ = {}
    /\ _config = NotLoaded

\* no process is in save_state
WritersIdle ==
    /\ writer_pc = [w \in Writers |-> "idle"]
    /\ writer_file = <<>>
    /\ writer_order = <<>>
    /\ writer_load = NotLoaded
WritersDefault ==
    /\ writer_state = [w \in Writers |-> NewState("it1")]
    /\ WritersIdle

\* IterationTracker.__init__ (lines 27-31)
TrackerFresh ==
    /\ _current_iteration = 0
    /\ _status = INITIALIZED
    /\ tracker_call = NoTrackerCall
    /\ tracker_trace = <<>>
\* the tracker of the other specifications: IterationTracker()
TrackerDefault ==
    /\ _max_iterations = None
    /\ TrackerFresh

\* __init__ (lines 24-43) and retry(exceptions, on_retry) (lines 63-66)
RetryInit ==
    /\ max_retries \in (0 - 1)..MaxRetries
    /\ initial_delay \in 1..MaxInitialDelay
    /\ strategy \in RetryStrategy
    /\ exceptions \in ExceptionTuples
    /\ on_retry \in {"None", "callable"}
    /\ RetryIdle
    /\ DelayUnused
    /\ TermDefault
    /\ StateDefault
    /\ StoreEmpty
    /\ TrackerDefault
    /\ LoggerDefault
    /\ ConfigDefault
    /\ WritersDefault

RetryNext == CallWrapper \/ InvokeFunc \/ OnRetry \/ SleepAndRetry \/ Exhausted

RetrySpec == RetryInit /\ [][RetryNext]_vars

DelayInit ==
    /\ max_retries = 3
    /\ initial_delay \in 1..MaxDelayArg
    /\ strategy \in RetryStrategy
    /\ exceptions = {"ValueError", "TypeError"}
    /\ on_retry = "None"
    /\ RetryIdle
    /\ DelayUnused
    /\ TermDefault
    /\ StateDefault
    /\ StoreEmpty
    /\ TrackerDefault
    /\ LoggerDefault
    /\ ConfigDefault
    /\ WritersDefault

DelayNext == CalculateDelay

DelaySpec == DelayInit /\ [][DelayNext]_vars

\* the dataclass constructor (lines 26-29)
TermInit ==
    /\ max_iterations \in 1..MaxIterations
    /\ performance_threshold \in PerformanceValues
    /\ TermFresh
    /\ RetryDefault
    /\ DelayUnused
    /\ StateDefault
    /\ StoreEmpty
    /\ TrackerDefault
    /\ LoggerDefault
    /\ ConfigDefault
    /\ WritersDefault

TermNext == EvaluateTermination \/ reset

TermSpec == TermInit /\ [][TermNext]_vars

\* IterationState(iteration_id=..., configuration=..., metrics=..., context=...)
\* (lines 33-40): created PENDING, the mappings given by the caller
StateInit ==
    /\ iteration_id \in Ids
    /\ status = PENDING
    /\ start_time = None
    /\ end_time = None
    /\ configuration \in StateMappings
    /\ metrics \in StateMappings
    /\ error_details = None
    /\ context \in StateMappings
    /\ StateUntouched
    /\ RetryDefault
    /\ DelayUnused
    /\ TermDefault
    /\ StoreEmpty
    /\ TrackerDefault
    /\ LoggerDefault
    /\ ConfigDefault
    /\ WritersDefault

StateNext ==
    mark_started \/ mark_completed \/ MarkFailed \/ mark_interrupted \/ RoundTrip

StateSpec == StateInit /\ [][StateNext]_vars

\* IterationStateManager.__init__ (lines 123-132)
StoreInit ==
    /\ files \in [Ids -> PreexistingFiles]
    /\ saved = [id \in Ids |-> NotSaved]
    /\ store_call = NoStoreCall
    /\ TrackerDefault
    /\ LoggerDefault
    /\ ConfigDefault
    /\ RetryDefault
    /\ DelayUnused
    /\ TermDefault
    /\ StateDefault
    /\ WritersDefault

StoreNext == SaveState \/ LoadState \/ GetStatesByStatus

StoreSpec == StoreInit /\ [][StoreNext]_vars

\* IterationTracker(max_iterations) (lines 19-31)
TrackerInit ==
    /\ _max_iterations \in TrackerLimits
    /\ TrackerFresh
    /\ RetryDefault
    /\ DelayUnused
    /\ TermDefault
    /\ StateDefault
    /\ StoreEmpty
    /\ LoggerDefault
    /\ ConfigDefault
    /\ WritersDefault

TrackerNext ==
    start \/ next_iteration \/ complete \/ terminate \/ error \/ is_iteration_allowed

TrackerSpec == TrackerInit /\ [][TrackerNext]_vars

\* IterationLogger.__init__ (lines 46-76)
LoggerInit ==
    /\ LoggerDefault
    /\ RetryDefault
    /\ DelayUnused
    /\ TermDefault
    /\ StateDefault
    /\ StoreEmpty
    /\ TrackerDefault
    /\ ConfigDefault
    /\ WritersDefault

LoggerNext == LogIteration \/ get_log_entries

LoggerSpec == LoggerInit /\ [][LoggerNext]_vars

\* the file and the environment a ConfigurationManager is made in
ConfigInit ==
    /\ config_file \in ConfigFiles
    /\ environ \in Environments
    /\ _config = NotLoaded
    /\ RetryDefault
    /\ DelayUnused
    /\ TermDefault
    /\ StateDefault
    /\ StoreEmpty
    /\ TrackerDefault
    /\ LoggerDefault
    /\ WritersDefault

ConfigNext == _load_configuration

ConfigSpec == ConfigInit /\ [][ConfigNext]_vars

\* two save_state calls for one id with different states
WritersInit ==
    /\ writer_state \in {ws \in [Writers -> WriterStates] : ws["A"] /= ws["B"]}
    /\ WritersIdle
    /\ RetryDefault
    /\ DelayUnused
    /\ TermDefault
    /\ StateDefault
    /\ StoreEmpty
    /\ TrackerDefault
    /\ LoggerDefault
    /\ ConfigDefault

WritersNext == (\E w \in Writers : WriterOpen(w) \/ WriterClose(w)) \/ WriterLoad

WritersSpec == WritersInit /\ [][WritersNext]_vars

Init ==
    /\ max_retries \in (0 - 1)..MaxRetries
    /\ initial_delay \in 1..MaxInitialDelay
    /\ strategy \in RetryStrategy
    /\ exceptions \in ExceptionTuples
    /\ on_retry \in {"None", "callable"}
    /\ RetryIdle
    /\ DelayUnused
    /\ max_iterations \in 1..MaxIterations
    /\ performance_threshold \in PerformanceValues
    /\ TermFresh
    /\ iteration_id \in Ids
    /\ status = PENDING
    /\ start_time = None
    /\ end_time = None
    /\ configuration \in StateMappings
    /\ metrics \in StateMappings
    /\ error_details = None
    /\ context \in StateMappings
    /\ StateUntouched
    /\ StoreEmpty
    /\ _max_iterations \in TrackerLimits
    /\ TrackerFresh
    /\ LoggerDefault
    /\ config_file \in ConfigFiles
    /\ environ \in Environments
    /\ _config = NotLoaded
    /\ writer_state \in [Writers -> WriterStates]
    /\ WritersIdle

Next == RetryNext \/ DelayNext \/ TermNext \/ StateNext \/ StoreNext \/ TrackerNext
            \/ LoggerNext \/ ConfigNext \/ WritersNext

Spec == Init /\ [][Next]_vars

(***************************************************************************)
(* Properties of the retry wrapper (checked under RetrySpec)               *)
(***************************************************************************)
Invocations == SelectSeq(events, LAMBDA e : e.ev = "invoke")
Callbacks == SelectSeq(events, LAMBDA e : e.ev = "callback")
Sleeps == SelectSeq(events, LAMBDA e : e.ev = "sleep")
\* the calls of func that raised an exception of a class in `exceptions`
CaughtFailures == SelectSeq(Invocations, LAMBDA e : e.outcome.kind \in exceptions)

\* the calls of func are numbered 1, 2, ... and never more than max_retries
AttemptsNumbered ==
    /\ Len(Invocations) <= max_retries
    /\ \A j \in 1..Len(Invocations) : Invocations[j].attempt = j

C2_ExhaustionRaisesLastFailure ==
    (/\ max_retries >= 1
     /\ pc = "raised"
     /\ Len(CaughtFailures) = Len(Invocations)) =>
        /\ Len(Invocations) = max_retries
        /\ result = [how |-> "raise", val |-> Invocations[max_retries].outcome]

\* C3: a failure of func whose class is not in `exceptions`, at attempt j,
\* leaves the wrapper at once: it is what the wrapper raises, func has been
\* called exactly j times and no callback and no sleep follows it.
C3_NonRetryablePropagatesAtOnce ==
    \A i \in 1..Len(events) :
      (/\ events[i].ev = "invoke"
       /\ events[i].outcome \in FuncFailures
       /\ events[i].outcome.kind \notin exceptions) =>
         /\ i = Len(events)
         /\ pc = "raised"
         /\ result = [how |-> "raise", val |-> events[i].outcome]
         /\ AttemptsNumbered
         /\ Len(Invocations) = events[i].attempt

C3_Witness ==
    /\ pc = "raised"
    /\ on_retry = "callable"
    /\ exceptions = {"ValueError"}
    /\ Len(Invocations) = 2
    /\ Len(Callbacks) = 1
    /\ Len(Sleeps) = 1
    /\ events[Len(events)].ev = "invoke"
    /\ result.val = Exc("TypeError", "a")

\* C4 (as claimed): a callback that raises does not end the guarded call: what
\* the wrapper raises is never the callback's exception, and after a callback
\* that raised on attempt j < N the wrapper goes on to call func for attempt
\* j+1.
C4_CallbackFailureDoesNotAbort ==
    \A i \in 1..Len(events) :
      (events[i].ev = "callback" /\ ~events[i].ok) =>
        /\ ~(result.how = "raise" /\ result.val = CallbackFailure)
        /\ events[i].attempt < max_retries =>
             \/ pc \in {"delay", "try"}
             \/ \E k \in (i+1)..Len(events) :
                  events[k].ev = "invoke" /\ events[k].attempt = events[i].attempt + 1

RECURSIVE Pow2(_)
Pow2(n) == IF n <= 0 THEN 1 ELSE 2 * Pow2(n - 1)

\* the delay the three strategies are documented to give
BackoffDelay(s, d, k) ==
    CASE s = "CONSTANT" -> d
      [] s = "LINEAR" -> d * k
      [] s = "EXPONENTIAL" -> d * Pow2(k - 1)

C39_NoAttemptsEndsInError ==
    max_retries <= 0 =>
        /\ Invocations = <<>>
        /\ result.how /= "return"
        /\ pc /= "idle" =>
              /\ pc = "raised"
              /\ result = [how |-> "raise", val |-> RaiseNoneError]
              /\ last_exception = NoException

C39_Witness ==
    /\ max_retries = 0
    /\ pc = "raised"
    /\ events = <<>>
    /\ result = [how |-> "raise", val |-> RaiseNoneError]

\* what happens at the attempt of event e once it has happened, n being the
\* event after it
Follows(e, n) ==
    CASE e.ev = "invoke" ->
           /\ ~e.ok /\ Catches(e.outcome)
           /\ n.attempt = e.attempt
           /\ IF on_retry = "callable"
                THEN n.ev = "callback" /\ n.outcome = e.outcome
                ELSE n.ev = "sleep"
      [] e.ev = "callback" ->
           /\ e.ok
           /\ n.ev = "sleep" /\ n.attempt = e.attempt
      [] e.ev = "sleep" ->
           /\ n.ev = "invoke" /\ n.attempt = e.attempt + 1
\* the event a call may end after
MayEndAfter(e) ==
    CASE e.ev = "invoke" ->
           e.ok \/ ~Catches(e.outcome) \/ (on_retry = "None" /\ e.attempt = max_retries)
      [] e.ev = "callback" -> ~e.ok \/ e.attempt = max_retries
      [] e.ev = "sleep" -> FALSE

\* C40: the events of one call are invoke(1), then at each attempt j
\* invoke(j), after a caught failure callback(j) when there is a callback,
\* then for j < max_retries sleep(delay(j)), then invoke(j+1); and a call
\* starts at attempt 1 with no last failure, whatever the call before it ended
\* with.
C40_OrderedAndFresh ==
    /\ events /= <<>> => (events[1].ev = "invoke" /\ events[1].attempt = 1)
    /\ \A i \in 1..(Len(events) - 1) : Follows(events[i], events[i + 1])
    /\ \A i \in 1..Len(events) :
           events[i].ev = "sleep" =>
               /\ events[i].attempt < max_retries
               /\ events[i].delay = _calculate_delay(events[i].attempt)
    /\ (pc \in {"returned", "raised"} /\ events /= <<>>) => MayEndAfter(events[Len(events)])
    /\ (pc = "try" /\ events = <<>>) => (attempt = 1 /\ last_exception = NoException)

C40_Witness ==
    /\ previous_call = [attempt |-> 2, last_exception |-> Exc("ValueError", "a")]
    /\ max_retries = 3
    /\ on_retry = "callable"
    /\ exceptions = {"ValueError"}
    /\ pc = "raised"
    /\ Len(events) = 4
    /\ events[1] = Event("invoke", 1, Exc("ValueError", "b"), 0, FALSE)
    /\ events[2] = Event("callback", 1, Exc("ValueError", "b"), 0, TRUE)
    /\ events[3] = Event("sleep", 1, NoException, _calculate_delay(1), TRUE)
    /\ events[4] = Event("invoke", 2, Exc("TypeError", "a"), 0, FALSE)

(***************************************************************************)
(* Properties of _calculate_delay (checked under DelaySpec)                *)
(***************************************************************************)
\* C7: for every attempt k >= 1 and initial delay d, _calculate_delay(k) is d
\* for CONSTANT, d*k for LINEAR and d*2^(k-1) for EXPONENTIAL.
C7_BackoffDelay ==
    delay_arg >= 1 => delay_ret = BackoffDelay(strategy, initial_delay, delay_arg)

C7_Witness ==
    /\ strategy = "EXPONENTIAL"
    /\ initial_delay = 3
    /\ delay_arg = 10
    /\ delay_ret = 1536

(***************************************************************************)
(* Properties of TerminationConditions (checked under TermSpec)            *)
(***************************************************************************)
RECURSIVE SetMax(_)
SetMax(S) ==
    IF S = {} THEN 0
    ELSE LET x == CHOOSE y \in S : TRUE
             m == SetMax(S \ {x})
         IN IF S = {x} \/ x > m THEN x ELSE m

\* C8: right after an evaluate_termination(p) call, the status it returned is
\* TERMINATE exactly when the incremented current_iteration >= max_iterations
\* or p >= performance_threshold, and CONTINUE otherwise.
C8_TerminateExactlyWhen ==
    evaluations > 0 =>
      /\ last_status \in {"TERMINATE", "CONTINUE"}
      /\ (last_status = "TERMINATE") <=>
            (\/ current_iteration >= max_iterations
             \/ last_performance >= performance_threshold)

C8_Witness ==
    /\ evaluations > 0
    /\ last_status = "TERMINATE"
    /\ current_iteration < max_iterations
    /\ last_performance = performance_threshold

\* C9: after n evaluate_termination calls since construction or the last
\* reset, current_iteration = n: each call adds exactly 1, whatever it
\* returns, also after a TERMINATE.
C9_IterationCountsCalls ==
    current_iteration = evaluations

C9_Witness ==
    /\ evaluations = max_iterations + 2
    /\ current_iteration = max_iterations + 2
    /\ last_status = "TERMINATE"

\* C10: after each call best_performance is the largest of 0 and the values
\* passed since construction or the last reset, and no evaluate_termination
\* call makes it smaller.
C10_BestIsMaxObserved ==
    /\ [](best_performance = SetMax(observed \cup {0}))
    /\ [][evaluations' = evaluations + 1 => best_performance' >= best_performance]_vars

C10_Witness ==
    /\ evaluations >= 3
    /\ best_performance = 2
    /\ last_performance < best_performance
    /\ (0 - 1) \in observed

\* C11: reset() leaves current_iteration = 0 and best_performance = 0 from any
\* state and no operation changes max_iterations or performance_threshold; the
\* evaluator is then in the state of a freshly constructed one with the same
\* configuration, and its next evaluate_termination call answers as the first
\* call of a fresh evaluator does.
C11_ResetRestoresFresh ==
    /\ [](evaluations = 0 => (current_iteration = 0 /\ best_performance = 0))
    /\ [](evaluations = 1 =>
            /\ current_iteration = 1
            /\ best_performance = (IF last_performance > 0 THEN last_performance ELSE 0)
            /\ (last_status = "TERMINATE") <=>
                  (1 >= max_iterations \/ last_performance >= performance_threshold))
    /\ [][/\ max_iterations' = max_iterations
           /\ performance_threshold' = performance_threshold]_vars

C11_Witness ==
    /\ evaluations = 0
    /\ total_evaluations >= 2
    /\ last_performance = 2
    /\ current_iteration = 0
    /\ best_performance = 0

(***************************************************************************)
(* Properties of IterationState (checked under StateSpec)                  *)
\* C31: without reset, the max_iterations-th call of evaluate_termination
\* returns TERMINATE whatever the performance values are, so a loop that stops
\* on TERMINATE makes at most max_iterations passes.
C31_TerminatesWithinLimit ==
    (evaluations > 0 /\ evaluations = max_iterations) => last_status = "TERMINATE"

C31_Witness ==
    /\ max_iterations = 3
    /\ evaluations = 3
    /\ performance_threshold = 2
    /\ observed = {0 - 1, 0}
    /\ last_status = "TERMINATE"

\* C32: a call made when current_iteration >= max_iterations returns
\* TERMINATE, whatever its value; a call that leaves current_iteration <
\* max_iterations with a value below performance_threshold returns CONTINUE,
\* also when best_performance has reached the threshold.
C32_LimitStickyThresholdNot ==
    [][evaluations' = evaluations + 1 =>
          /\ current_iteration >= max_iterations => last_status' = "TERMINATE"
          /\ (/\ current_iteration' < max_iterations
              /\ last_performance' < performance_threshold) => last_status' = "CONTINUE"]_vars

C32_Witness ==
    /\ evaluations = 2
    /\ current_iteration < max_iterations
    /\ performance_threshold = 1
    /\ best_performance = 2
    /\ last_performance = 0
    /\ last_status = "CONTINUE"

(***************************************************************************)
Terminal(st) == st \in {COMPLETED, FAILED, INTERRUPTED}

\* the statuses the state machine of the specification lets a transition
\* start from
Permitted(op, st) ==
    IF op = "mark_started" THEN st = PENDING ELSE st = RUNNING

\* the status a transition leads to
Target(op) ==
    CASE op = "mark_started" -> RUNNING
      [] op = "mark_completed" -> COMPLETED
      [] op = "mark_failed" -> FAILED
      [] op = "mark_interrupted" -> INTERRUPTED

\* the datetime the last mark_* call read
LastCallTime == Some(Datetime(now - 1))

\* C12 (as claimed): a mark_* call on a state whose status is terminal leaves
\* the status as it was.
C12_TerminalStatusIsFinal ==
    (last_call.op /= "none" /\ Terminal(last_call.before.status)) =>
        status = last_call.before.status

\* C13 (as claimed): start_time is assigned at most once, and a call that
\* assigns it moves the status from PENDING to RUNNING.
C13_StartTimeAssignedOnce ==
    /\ start_assignments <= 1
    /\ (last_call.op /= "none" /\ start_time /= last_call.before.start_time) =>
          /\ last_call.before.status = PENDING
          /\ status = RUNNING

\* C14 (as claimed): end_time is assigned at most once, and a call that
\* assigns it moves the status into COMPLETED, FAILED or INTERRUPTED.
C14_EndTimeAssignedOnce ==
    /\ end_assignments <= 1
    /\ (last_call.op /= "none" /\ end_time /= last_call.before.end_time) =>
          /\ ~Terminal(last_call.before.status)
          /\ Terminal(status)

\* C15 (as claimed): error_details is a non-empty string exactly when the
\* status is FAILED.
C15_ErrorDetailsIffFailed ==
    (error_details /= None /\ error_details /= Some("")) <=> (status = FAILED)

C17_TransitionPostconditions ==
    /\ last_call.op = "mark_started" =>
          status = RUNNING /\ start_time /= None /\ start_time = LastCallTime
    /\ last_call.op = "mark_completed" =>
          status = COMPLETED /\ end_time /= None /\ end_time = LastCallTime
    /\ last_call.op = "mark_failed" =>
          /\ status = FAILED
          /\ end_time /= None
          /\ end_time = LastCallTime
          /\ error_details = last_call.arg
    /\ last_call.op = "mark_interrupted" =>
          status = INTERRUPTED /\ end_time /= None /\ end_time = LastCallTime

C17_Witness ==
    /\ last_call.op = "mark_failed"
    /\ last_call.arg = Some("x")
    /\ last_call.before.status = RUNNING
    /\ last_call.before.end_time = None
    /\ status = FAILED
    /\ end_time = Some(Datetime(2))
    /\ error_details = Some("x")

\* C18: from_dict(to_dict(s)) has the iteration_id, status, start_time,
\* end_time, configuration, metrics, error_details and context of s.
C18_DictRoundTrip ==
    roundtrip.done =>
        /\ roundtrip.got.iteration_id = roundtrip.of.iteration_id
        /\ roundtrip.got.status = roundtrip.of.status
        /\ roundtrip.got.start_time = roundtrip.of.start_time
        /\ roundtrip.got.end_time = roundtrip.of.end_time
        /\ roundtrip.got.configuration = roundtrip.of.configuration
        /\ roundtrip.got.metrics = roundtrip.of.metrics
        /\ roundtrip.got.error_details = roundtrip.of.error_details
        /\ roundtrip.got.context = roundtrip.of.context

C18_Witness ==
    /\ roundtrip.done
    /\ roundtrip.of.iteration_id = "it2"
    /\ roundtrip.of.status = FAILED
    /\ roundtrip.of.start_time = Some(Datetime(1))
    /\ roundtrip.of.end_time = Some(Datetime(2))
    /\ roundtrip.of.error_details = Some("x")
    /\ roundtrip.of.configuration = {<<"k", Value("int", 1)>>}
    /\ roundtrip.of.metrics = {<<"k", Value("tuple", 1)>>}
    /\ roundtrip.of.context = {}
    /\ roundtrip.got.status = FAILED

\* C38: every state reached from PENDING by mark_* calls has a status among
\* PENDING, RUNNING, COMPLETED, FAILED and INTERRUPTED, a start_time when it is
\* RUNNING and an end_time when it is COMPLETED, FAILED or INTERRUPTED.
C38_StatusAndTimes ==
    /\ status \in {PENDING, RUNNING, COMPLETED, FAILED, INTERRUPTED}
    /\ status = RUNNING => start_time /= None
    /\ Terminal(status) => end_time /= None

C38_Witness ==
    /\ status = RUNNING
    /\ start_time = Some(Datetime(3))
    /\ end_time = Some(Datetime(2))
    /\ last_call.op = "mark_started"
    /\ start_assignments = 2

(***************************************************************************)
(* Properties of the state manager (checked under StoreSpec)               *)
(***************************************************************************)
\* the last save_state call for the id returned
LastSaveReturned(id) == saved[id].called /\ saved[id].returned

\* the mappings of s hold only values that a JSON document holds as they are
JsonNative(s) ==
    \A kv \in s.configuration \cup s.metrics \cup s.context :
        kv[2].type \in {"int", "list"}

\* C19 as stated: load_state(id), when the last save_state for id returned,
\* returns the state that save was given, whatever that state is.
C19_LoadReturnsSaved ==
    (store_call.op = "load_state" /\ LastSaveReturned(store_call.id)) =>
        store_call.result = Return(Some(saved[store_call.id].state))

\* C19: load_state(id), when the last save_state for id returned and was given
\* a state whose configuration, metrics and context hold only values a JSON
\* document holds as they are, returns a state equal to it in every field,
\* whatever was saved under other ids before or after.
C19_LoadReturnsSavedJsonNative ==
    (/\ store_call.op = "load_state"
     /\ LastSaveReturned(store_call.id)
     /\ JsonNative(saved[store_call.id].state)) =>
        store_call.result = Return(Some(saved[store_call.id].state))

C19_Witness ==
    /\ store_call.op = "load_state"
    /\ store_call.id = "it1"
    /\ LastSaveReturned("it1")
    /\ saved["it1"].state.status = RUNNING
    /\ saved["it1"].state.metrics = {<<"k", Value("list", 1)>>}
    /\ LastSaveReturned("it2")
    /\ saved["it2"].state.status = FAILED
    /\ store_call.result = Return(Some(saved["it1"].state))

\* C20: load_state(id), when there is no file for id, returns None and raises
\* nothing, and every file is as it was before the call.
C20_LoadUnknownReturnsNone ==
    (/\ store_call.op = "load_state"
     /\ store_call.before[store_call.id].kind = "absent") =>
        /\ store_call.result = Return(None)
        /\ files = store_call.before

C20_Witness ==
    /\ store_call.op = "load_state"
    /\ store_call.id = "it2"
    /\ store_call.before["it2"].kind = "absent"
    /\ store_call.before["it1"].kind = "json"
    /\ store_call.result = Return(None)
    /\ files["it1"].kind = "json"

\* C21 as stated: a save_state that returns leaves the file of every other id
\* as it was, and a load_state after a second save_state for the same id
\* returns the state that second save was given, whatever it is.
C21_SaveReplacesRecord ==
    /\ (store_call.op = "save_state" /\ store_call.result.how = "return") =>
           \A other \in Ids \ {store_call.id} : files[other] = store_call.before[other]
    /\ (/\ store_call.op = "load_state"
        /\ LastSaveReturned(store_call.id)
        /\ saved[store_call.id].again) =>
           store_call.result = Return(Some(saved[store_call.id].state))

\* C21: a save_state that returns leaves the file of every other id as it was
\* and leaves under its own id the record of its argument alone, with nothing
\* of the file it replaced; a load_state after a second save_state for the
\* same id, given a state with JSON-native mappings, returns that state.
C21_SaveReplacesRecordJsonNative ==
    /\ (store_call.op = "save_state" /\ store_call.result.how = "return") =>
           /\ \A other \in Ids \ {store_call.id} : files[other] = store_call.before[other]
           /\ files[store_call.id] = json_dump(to_dict(saved[store_call.id].state))
    /\ (/\ store_call.op = "load_state"
        /\ LastSaveReturned(store_call.id)
        /\ saved[store_call.id].again
        /\ JsonNative(saved[store_call.id].state)) =>
           store_call.result = Return(Some(saved[store_call.id].state))

C21_Witness ==
    /\ store_call.op = "save_state"
    /\ store_call.id = "it1"
    /\ store_call.result.how = "return"
    /\ saved["it1"].again
    /\ store_call.before["it1"].kind = "json"
    /\ store_call.before["it1"].doc.status = "RUNNING"
    /\ store_call.before["it1"].doc.metrics = {<<"k", Value("int", 1)>>}
    /\ saved["it1"].state.status = PENDING
    /\ saved["it1"].state.metrics = {}
    /\ files["it1"].doc.metrics = {}
    /\ files["it2"].kind = "json"

\* a file that json.load and from_dict accept
WellFormed(file) ==
    /\ file.kind = "json"
    /\ Fields \subseteq DOMAIN file.doc
    /\ StatusByName(file.doc.status) /= 0
\* a file that is there and is not a record
Malformed(file) == file.kind /= "absent" /\ ~WellFormed(file)

\* the ids whose record has the given status
RecordsWithStatus(fs, st) ==
    {id \in Ids : WellFormed(fs[id]) /\ StatusByName(fs[id].doc.status) = st}

\* C22: get_states_by_status(st), when every file is a record, returns one
\* state for each record whose status is st, as from_dict reads it, and
\* nothing else.
C22_ListsExactlyMatching ==
    (/\ store_call.op = "get_states_by_status"
     /\ \A id \in Ids : ~Malformed(store_call.before[id])) =>
        LET got == store_call.result.value
            matching == RecordsWithStatus(store_call.before, store_call.id)
        IN /\ store_call.result.how = "return"
           /\ Len(got) = Cardinality(matching)
           /\ {got[i] : i \in 1..Len(got)} =
                  {from_dict(store_call.before[id].doc) : id \in matching}

C22_Witness ==
    /\ store_call.op = "get_states_by_status"
    /\ store_call.id = FAILED
    /\ LastSaveReturned("it1")
    /\ saved["it1"].again
    /\ saved["it1"].state.status = FAILED
    /\ LastSaveReturned("it2")
    /\ saved["it2"].state.status = RUNNING
    /\ store_call.result = Return(<<saved["it1"].state>>)

\* C23: load_state of the id of a malformed file raises, and so does every
\* get_states_by_status while a malformed file is in the directory.
C23_MalformedIsSurfaced ==
    /\ (store_call.op = "load_state" /\ Malformed(store_call.before[store_call.id])) =>
           store_call.result.how = "raise"
    /\ (/\ store_call.op = "get_states_by_status"
        /\ \E id \in Ids : Malformed(store_call.before[id])) =>
           store_call.result.how = "raise"

\* C24: no call removes a file: an id that has a file before a step has one
\* after it.
C24_NeverDeletes ==
    [][\A id \in Ids : files[id].kind /= "absent" => files'[id].kind /= "absent"]_vars

C24_Witness ==
    /\ store_call.op = "save_state"
    /\ store_call.result = Raise("TypeError")
    /\ store_call.before[store_call.id].kind = "json"
    /\ files[store_call.id].kind = "truncated"
    /\ \A id \in Ids : files[id].kind /= "absent"

(***************************************************************************)
(* Properties of the iteration tracker (checked under TrackerSpec)         *)
(***************************************************************************)
\* the calls so far are a start() that returned followed by next_iteration()
\* calls only
StartThenNextOnly ==
    /\ tracker_trace /= <<>>
    /\ tracker_trace[1] = TrackerEvent("start", Return(None))
    /\ \A i \in 2..Len(tracker_trace) : tracker_trace[i].op = "next_iteration"

\* C25: with max_iterations = N >= 1, of the next_iteration() calls that
\* follow start() the first N return True and the N+1-th returns False and
\* leaves the status COMPLETED.
C25_FirstNReturnTrue ==
    (_max_iterations /= None /\ _max_iterations[1] >= 1 /\ StartThenNextOnly) =>
        \A k \in 1..(Len(tracker_trace) - 1) :
            /\ k <= _max_iterations[1] => tracker_trace[k + 1].result = Return(True)
            /\ k = _max_iterations[1] + 1 =>
                   /\ tracker_trace[k + 1].result = Return(False)
                   /\ Len(tracker_trace) = k + 1 => _status = COMPLETED

\* C26: start() from INITIALIZED returns and leaves the status IN_PROGRESS;
\* from any other status it raises RuntimeError and leaves the status and
\* current_iteration as they were.
C26_StartOnlyFromInitialized ==
    tracker_call.op = "start" =>
        IF tracker_call.before.status = INITIALIZED
          THEN /\ tracker_call.result = Return(None)
               /\ _status = IN_PROGRESS
          ELSE /\ tracker_call.result = Raise("RuntimeError")
               /\ _status = tracker_call.before.status
               /\ _current_iteration = tracker_call.before.current_iteration

C26_Witness ==
    /\ tracker_call.op = "start"
    /\ tracker_call.before.status = IN_PROGRESS
    /\ tracker_call.before.current_iteration = 1
    /\ tracker_call.result = Raise("RuntimeError")
    /\ tracker_trace[1] = TrackerEvent("start", Return(None))
    /\ _status = IN_PROGRESS

\* C27: next_iteration() in a status other than IN_PROGRESS raises
\* RuntimeError and leaves current_iteration and the status as they were; in
\* IN_PROGRESS it returns and increases current_iteration by exactly 1.
C27_NextOnlyInProgress ==
    tracker_call.op = "next_iteration" =>
        IF tracker_call.before.status /= IN_PROGRESS
          THEN /\ tracker_call.result = Raise("RuntimeError")
               /\ _current_iteration = tracker_call.before.current_iteration
               /\ _status = tracker_call.before.status
          ELSE /\ tracker_call.result.how = "return"
               /\ _current_iteration = tracker_call.before.current_iteration + 1

C27_Witness ==
    /\ tracker_call.op = "next_iteration"
    /\ tracker_call.before.status = TERMINATED
    /\ tracker_call.result = Raise("RuntimeError")
    /\ _current_iteration = 2
    /\ _status = TERMINATED
    /\ \E i \in 1..Len(tracker_trace) :
           tracker_trace[i] = TrackerEvent("next_iteration", Return(True))

\* no start() has been called
NotStarted == \A i \in 1..Len(tracker_trace) : tracker_trace[i].op /= "start"
\* the last call that acted on the tracker is a start() that returned
JustStarted ==
    /\ tracker_trace /= <<>>
    /\ tracker_trace[Len(tracker_trace)] = TrackerEvent("start", Return(None))

\* C28 as stated: is_iteration_allowed() is True exactly when the status is
\* IN_PROGRESS and the limit is None or above current_iteration; it is False
\* before start(), True after start(), False once max_iterations
\* next_iteration calls have been made.
C28_AllowedExactlyWhen ==
    tracker_call.op = "is_iteration_allowed" =>
        LET allowed == tracker_call.result.value = True
        IN /\ tracker_call.result.how = "return"
           /\ tracker_call.result.value \in {True, False}
           /\ allowed = (/\ _status = IN_PROGRESS
                         /\ (_max_iterations = None \/ _current_iteration < _max_iterations[1]))
           /\ NotStarted => allowed = FALSE
           /\ JustStarted => allowed = TRUE
           /\ (_max_iterations /= None /\ _current_iteration >= _max_iterations[1]) =>
                  allowed = FALSE

\* C28: the same, with True after start() only for a limit that is None or at
\* least 1.
C28_AllowedExactlyWhenLimitPositive ==
    tracker_call.op = "is_iteration_allowed" =>
        LET allowed == tracker_call.result.value = True
        IN /\ tracker_call.result.how = "return"
           /\ tracker_call.result.value \in {True, False}
           /\ allowed = (/\ _status = IN_PROGRESS
                         /\ (_max_iterations = None \/ _current_iteration < _max_iterations[1]))
           /\ NotStarted => allowed = FALSE
           /\ (JustStarted /\ (_max_iterations = None \/ _max_iterations[1] >= 1)) =>
                  allowed = TRUE
           /\ (_max_iterations /= None /\ _current_iteration >= _max_iterations[1]) =>
                  allowed = FALSE

C28_Witness ==
    /\ tracker_call.op = "is_iteration_allowed"
    /\ _max_iterations = Some(2)
    /\ tracker_trace = <<TrackerEvent("start", Return(None)),
                         TrackerEvent("next_iteration", Return(True)),
                         TrackerEvent("next_iteration", Return(False))>>
    /\ _current_iteration = 2
    /\ tracker_call.result = Return(False)

\* the statuses complete(), terminate() and error() assign
Ended == {COMPLETED, TERMINATED, ERROR}

\* C35: with max_iterations = N >= 1, current_iteration never exceeds N,
\* whatever calls are made, raising ones included.
C35_CountWithinLimit ==
    (_max_iterations /= None /\ _max_iterations[1] >= 1) =>
        _current_iteration <= _max_iterations[1]

C35_Witness ==
    /\ _max_iterations = Some(2)
    /\ _current_iteration = 2
    /\ _status = ERROR
    /\ tracker_call = [op |-> "next_iteration",
                       before |-> [status |-> ERROR, current_iteration |-> 2],
                       result |-> Raise("RuntimeError")]
    /\ \E i \in 1..Len(tracker_trace) :
           tracker_trace[i] = TrackerEvent("next_iteration", Return(False))

\* a step from COMPLETED, TERMINATED or ERROR
StaysEnded ==
    _status \in Ended =>
        /\ _status' \in Ended
        /\ _current_iteration' = _current_iteration
        /\ (tracker_trace' /= tracker_trace
               /\ tracker_call'.op \in {"start", "next_iteration"}) =>
                  tracker_call'.result = Raise("RuntimeError")

\* C36: from a status of COMPLETED, TERMINATED or ERROR every step leaves the
\* status among these three and current_iteration as it is, and a start() or
\* next_iteration() made then raises.
C36_NeverResumes == [][StaysEnded]_vars

C36_Witness ==
    /\ _status = TERMINATED
    /\ _current_iteration = 1
    /\ Len(tracker_trace) = 5
    /\ tracker_trace[3] = TrackerEvent("complete", Return(None))
    /\ tracker_trace[4] = TrackerEvent("terminate", Return(None))
    /\ tracker_trace[5] = TrackerEvent("start", Raise("RuntimeError"))
    /\ tracker_call.op = "start"

\* C37: next_iteration() returns True exactly when is_iteration_allowed() is
\* True right after the call, and False exactly when the call changed the
\* status to COMPLETED.
C37_NextAgreesWithAllowed ==
    tracker_call.op = "next_iteration" =>
        /\ tracker_call.result = Return(True) <=> IsIterationAllowed
        /\ tracker_call.result = Return(False) <=>
               (_status = COMPLETED /\ tracker_call.before.status /= COMPLETED)

C37_Witness ==
    /\ tracker_call.op = "next_iteration"
    /\ tracker_call.result = Return(False)
    /\ _max_iterations = Some(3)
    /\ _current_iteration = 3
    /\ _status = COMPLETED
    /\ ~IsIterationAllowed
    /\ tracker_trace[Len(tracker_trace) - 1] = TrackerEvent("next_iteration", Return(True))

(***************************************************************************)
(* Properties of the iteration log (checked under LoggerSpec)              *)
(***************************************************************************)
\* every log_iteration call so far wrote its entry
AllWritten == \A i \in 1..Len(logged) : logged[i].written
\* the entry of the i-th call as the log file holds it
LoggedEntry(i) == JsonEntry(entry_to_dict(logged[i].entry))

\* C29: while every log_iteration call has written its entry,
\* get_log_entries() returns one entry per call, in call order, and each
\* log_iteration leaves the file with the entries it had followed by the new
\* one.
C29_AppendOnlyInOrder ==
    AllWritten =>
        /\ log_call.op = "get_log_entries" =>
               /\ Len(log_call.result.value) = Len(logged)
               /\ \A i \in 1..Len(logged) : log_call.result.value[i] = LoggedEntry(i)
        /\ log_call.op = "log_iteration" =>
               /\ log_call.result = Return(None)
               /\ log_file.kind = "json"
               /\ log_file.entries =
                      Append(log_call.before.entries, LoggedEntry(Len(logged)))

C29_Witness ==
    /\ log_call.op = "get_log_entries"
    /\ AllWritten
    /\ Len(logged) = 3
    /\ logged[1].entry.iteration_number = 1
    /\ logged[2].entry.iteration_number = 0
    /\ logged[2].entry.metadata = {<<"k", Value("tuple", 1)>>}
    /\ logged[3].entry.iteration_number = 2
    /\ Len(log_call.result.value) = 3
    /\ log_call.result.value[1].iteration_number = 1
    /\ log_call.result.value[3].status = "failure"

\* what get_log_entries returns for a log file
ReadableEntries(file) == IF file.kind = "json" THEN file.entries ELSE <<>>

\* C34: a log_iteration call that did not write its entry returns to its
\* caller without raising and leaves get_log_entries() returning the entries
\* it returned before the call.
C34_FailedWriteKeepsEntries ==
    (log_call.op = "log_iteration" /\ ~logged[Len(logged)].written) =>
        /\ log_call.result = Return(None)
        /\ ReadableEntries(log_file) = ReadableEntries(log_call.before)

(***************************************************************************)
(* Properties of the configuration manager (checked under ConfigSpec)      *)
(***************************************************************************)
\* the file gives the field a value
FileSets(f) ==
    /\ config_file.kind = "json"
    /\ HasKey(config_file.doc, f)
    /\ Lookup(config_file.doc, f) /= None

\* C30: the loaded configuration holds, for each field, the file's value when
\* the file sets it, else the value of its ALP_ variable when that is set,
\* else the default.
C30_FileOverEnvironment ==
    _config.how = "return" =>
        \A f \in ConfigFields :
            _config.value[1][f] =
                IF FileSets(f) THEN Lookup(config_file.doc, f)[1]
                ELSE IF HasKey(environ, f) THEN Lookup(environ, f)
                ELSE DefaultConfig[f]

(***************************************************************************)
(* Properties of concurrent saves (checked under WritersSpec)              *)
(***************************************************************************)
\* C33: when both writers' save_state calls have ended, load_state returns
\* the state given to the call that ended last.
C33_LastWriterWins ==
    writer_load /= NotLoaded =>
        writer_load = Return(Some(writer_state[writer_order[Len(writer_order)]]))

====
